---- MODULE Spec2Model ----
(***************************************************************************)
(* Model of recon/masscan.py: the Masscan task (an ExternalProgramTask).   *)
(*                                                                         *)
(* Python strings are sequences of one-character strings, so that joining, *)
(* formatting and slicing are computed and not assumed.  An argument       *)
(* vector is a sequence of such strings.                                   *)
(***************************************************************************)
EXTENDS Integers, Sequences, FiniteSets, TLC

\* ------------------------------------------------------------------ bounds
\* largest --top-ports value tried (the smallest is -2)
MaxTopN == 4
\* how many times the scheduler invokes the same task instance
MaxInvocations == 3

\* ----------------------------------------------------------- string helpers
Min(a, b) == IF a < b THEN a ELSE b
Max(a, b) == IF a > b THEN a ELSE b

Digits == <<"0", "1", "2", "3", "4", "5", "6", "7", "8", "9">>

\* str(x) of a non-negative int: its decimal digits
RECURSIVE Str(_)
Str(n) == IF n < 10 THEN <<Digits[n + 1]>>
          ELSE Str(n \div 10) \o <<Digits[(n % 10) + 1]>>

\* sep.join(strs)
RECURSIVE Join(_, _)
Join(strs, sep) ==
    IF strs = <<>> THEN <<>>
    ELSE IF Len(strs) = 1 THEN Head(strs)
    ELSE Head(strs) \o sep \o Join(Tail(strs), sep)

\* the list comprehension  str(x) for x in xs
StrAll(xs) == [i \in 1..Len(xs) |-> Str(xs[i])]

\* Python's  xs[:n]  (a negative n counts from the end; out of range clamps)
SliceMut(xs, n) == SubSeq(xs, 1, Min(n, Len(xs) - 1))
Slice(xs, n) ==
    IF n >= 0 THEN SubSeq(xs, 1, Min(n, Len(xs)))
    ELSE SubSeq(xs, 1, Max(Len(xs) + n, 0))

\* ------------------------------------------------------------ literal text
S_masscan == <<"m", "a", "s", "c", "a", "n">>
S_v       == <<"-", "v">>
S_open    == <<"-", "-", "o", "p", "e", "n">>
S_banners == <<"-", "-", "b", "a", "n", "n", "e", "r", "s">>
S_rate    == <<"-", "-", "r", "a", "t", "e">>
S_e       == <<"-", "e">>
S_oJ      == <<"-", "o", "J">>
S_ports   == <<"-", "-", "p", "o", "r", "t", "s">>
S_iL      == <<"-", "i", "L">>
S_udp     == <<",", "U", ":">>

\* ------------------------------------------------------------ input domains
TargetFiles == { <<"a">>, <<"t", "e", "s", "l", "a">> }
Rates       == { <<"1", "0", "0", "0">>, <<"5", "0", "0">> }
Interfaces  == { <<"t", "u", "n", "0">>, <<"e", "t", "h", "0">> }
PortStrings == { <<>>,
                 <<"8", "0">>,
                 <<"8", "0", ",", "4", "4", "3">>,
                 <<"U", ":", "5", "3">> }
TopPortValues == (0 - 2) .. MaxTopN
TcpCatalogs == { <<80, 443, 22>>, <<80, 443, 22, 21, 25, 23>> }
UdpCatalogs == { <<>>, <<53, 161>> }
\* the path of the TargetList artifact of a target file
TargetListPaths(tf) == { tf \o <<".", "i", "p", "s">>,
                         tf \o <<".", "d", "o", "m">> }

\* ------------------------------------------------------------------- state
VARIABLES
    target_file,      \* self.target_file (inherited from TargetList)
    rate,             \* self.rate
    interface,        \* self.interface
    top_ports,        \* self.top_ports
    ports,            \* self.ports
    param_kwargs,     \* the parameter values the instance was created with
    masscan_output,   \* self.masscan_output
    top_tcp_ports,    \* recon.config.top_tcp_ports
    top_udp_ports,    \* recon.config.top_udp_ports
    target_list_path, \* self.input().get("target_list").path
    outputExists,     \* self.output().exists()
    state,            \* position of the task in the runner's lifecycle
    command,          \* the argument vector last returned by program_args
    exitStatus,       \* status passed to exit(), 0 while exit was not called
    calls,            \* number of calls of program_args
    launched,         \* number of external processes launched
    invocations       \* number of times the scheduler invoked the task

vars == <<target_file, rate, interface, top_ports, ports, param_kwargs,
          masscan_output, top_tcp_ports, top_udp_ports, target_list_path,
          outputExists, state, command, exitStatus, calls, launched,
          invocations>>

params   == <<target_file, rate, interface, param_kwargs>>
catalog  == <<top_tcp_ports, top_udp_ports>>

\* ------------------------------------------------------------- __init__
\* f"masscan.{self.target_file}.json"
OutputPath(tf) == S_masscan \o <<".">> \o tf \o <<".", "j", "s", "o", "n">>

Init ==
    /\ target_file \in TargetFiles
    /\ rate \in Rates
    /\ interface \in Interfaces
    /\ top_ports \in TopPortValues
    /\ ports \in PortStrings
    /\ param_kwargs = [ports |-> ports, top_ports |-> top_ports]
    /\ masscan_output = OutputPath(target_file)
    /\ top_tcp_ports \in TcpCatalogs
    /\ top_udp_ports \in UdpCatalogs
    /\ target_list_path \in TargetListPaths(target_file)
    /\ outputExists \in BOOLEAN
    /\ state = "Pending"
    /\ command = <<>>
    /\ exitStatus = 0
    /\ calls = 0
    /\ launched = 0
    /\ invocations = 1

\* ----------------------------------------------------------- program_args
\* The three checks at the top of program_args, in the order of the code;
\* the result is the status passed to exit(), 0 when no check fires.
\* Python truth: a string is true when non-empty, an int when non-zero.
ValidateNoMissing(p, t) ==
    IF p # <<>> /\ t # 0 THEN 1
    ELSE IF t < 0 THEN 3
    ELSE 0
ValidateNoConflict(p, t) ==
    IF p = <<>> /\ t = 0 THEN 2
    ELSE IF t < 0 THEN 3
    ELSE 0
ValidateNoNegative(p, t) ==
    IF p # <<>> /\ t # 0 THEN 1
    ELSE IF p = <<>> /\ t = 0 THEN 2
    ELSE 0
Validate(p, t) ==
    IF p # <<>> /\ t # 0 THEN 1
    ELSE IF p = <<>> /\ t = 0 THEN 2
    ELSE IF t < 0 THEN 3
    ELSE 0

\* f"{top_tcp_ports_str},U:{top_udp_ports_str}"
TopPortsExpr(tcp, udp, t) ==
    Join(StrAll(Slice(tcp, t)), <<",">>) \o S_udp
        \o Join(StrAll(Slice(udp, t)), <<",">>)

\* self.ports after the  if self.top_ports:  block
PortsAfterKept(p, t, tcp, udp) == p
PortsAfterNormalised(p, t, tcp, udp) ==
    IF t # 0 THEN TopPortsExpr(tcp, udp, t)
    ELSE IF p = <<"8", "0">> THEN <<"8", "0", "-", "8", "0">> ELSE p
PortsAfter(p, t, tcp, udp) ==
    IF t # 0 THEN TopPortsExpr(tcp, udp, t) ELSE p

\* self.top_ports after the  if self.top_ports:  block
TopPortsAfterKept(t) == t
TopPortsAfter(t) == IF t # 0 THEN 0 ELSE t

\* the list  command
Command(r, i, out, p, path) ==
    << S_masscan, S_v, S_open, S_banners,
       S_rate, r,
       S_e, i,
       S_oJ, out,
       S_ports, p,
       S_iL, path >>

\* ----------------------------------------------------------------- runner
\* The scheduler resolves the TargetList dependency.
ResolveDependency ==
    /\ state = "Pending"
    /\ state' = "DependencyResolved"
    /\ UNCHANGED <<params, catalog, top_ports, ports, masscan_output,
                   target_list_path, outputExists, command, exitStatus,
                   calls, launched, invocations>>

\* The task is complete when its output exists: run() is not called.
SkipComplete ==
    /\ state = "DependencyResolved"
    /\ outputExists
    /\ state' = "Succeeded"
    /\ UNCHANGED <<params, catalog, top_ports, ports, masscan_output,
                   target_list_path, outputExists, command, exitStatus,
                   calls, launched, invocations>>

\* run() calls program_args(); one of its checks calls exit().
RunExit ==
    /\ state = "DependencyResolved"
    /\ ~outputExists
    /\ Validate(ports, top_ports) # 0
    /\ calls' = calls + 1
    /\ exitStatus' = Validate(ports, top_ports)
    /\ state' = "Failed"
    /\ UNCHANGED <<params, catalog, top_ports, ports, masscan_output,
                   target_list_path, outputExists, command, launched,
                   invocations>>

\* run() calls program_args(), which returns the command; run() launches it.
RunLaunchRenamesOutput ==
    /\ state = "DependencyResolved"
    /\ ~outputExists
    /\ Validate(ports, top_ports) = 0
    /\ calls' = calls + 1
    /\ ports' = PortsAfter(ports, top_ports, top_tcp_ports, top_udp_ports)
    /\ top_ports' = TopPortsAfter(top_ports)
    /\ masscan_output' = OutputPath(ports')
    /\ command' = Command(rate, interface, masscan_output', ports',
                          target_list_path)
    /\ launched' = launched + 1
    /\ state' = "Running"
    /\ UNCHANGED <<params, catalog, target_list_path,
                   outputExists, exitStatus, invocations>>
RunLaunch ==
    /\ state = "DependencyResolved"
    /\ ~outputExists
    /\ Validate(ports, top_ports) = 0
    /\ calls' = calls + 1
    /\ ports' = PortsAfter(ports, top_ports, top_tcp_ports, top_udp_ports)
    /\ top_ports' = TopPortsAfter(top_ports)
    /\ command' = Command(rate, interface, masscan_output, ports',
                          target_list_path)
    /\ launched' = launched + 1
    /\ state' = "Running"
    /\ UNCHANGED <<params, catalog, masscan_output, target_list_path,
                   outputExists, exitStatus, invocations>>

\* The external process exits with status 0, having written its output.
ProcessSucceeds ==
    /\ state = "Running"
    /\ state' = "Succeeded"
    /\ outputExists' = TRUE
    /\ UNCHANGED <<params, catalog, top_ports, ports, masscan_output,
                   target_list_path, command, exitStatus, calls, launched,
                   invocations>>

\* The external process fails; it may or may not have left an output file.
ProcessFails ==
    /\ state = "Running"
    /\ state' = "Failed"
    /\ outputExists' \in BOOLEAN
    /\ UNCHANGED <<params, catalog, top_ports, ports, masscan_output,
                   target_list_path, command, exitStatus, calls, launched,
                   invocations>>

\* The scheduler invokes the same instance again (a retry, or a re-run of a
\* finished task).  After exit() there is no process left to invoke.
Reinvoke ==
    /\ state \in {"Succeeded", "Failed"}
    /\ exitStatus = 0
    /\ invocations < MaxInvocations
    /\ invocations' = invocations + 1
    /\ state' = "Pending"
    /\ UNCHANGED <<params, catalog, top_ports, ports, masscan_output,
                   target_list_path, outputExists, command, exitStatus,
                   calls, launched>>

Next ==
    \/ ResolveDependency
    \/ SkipComplete
    \/ RunExit
    \/ RunLaunch
    \/ ProcessSucceeds
    \/ ProcessFails
    \/ Reinvoke

Spec == Init /\ [][Next]_vars

TypeOK ==
    /\ state \in {"Pending", "DependencyResolved", "Running", "Succeeded",
                  "Failed"}
    /\ exitStatus \in 0..3
    /\ calls \in 0..MaxInvocations
    /\ launched \in 0..MaxInvocations
    /\ invocations \in 1..MaxInvocations

\* ------------------------------------------------------- reading a port expression
\* the value of a decimal digit string
DigitValue(c) == CHOOSE d \in 0..9 : Digits[d + 1] = c
RECURSIVE ParseInt(_)
ParseInt(cs) ==
    IF Len(cs) = 1 THEN DigitValue(cs[1])
    ELSE 10 * ParseInt(SubSeq(cs, 1, Len(cs) - 1)) + DigitValue(cs[Len(cs)])

\* the comma-separated entries of a segment; an empty segment has none
RECURSIVE SplitComma(_)
SplitComma(seg) ==
    IF \A i \in 1..Len(seg) : seg[i] # ","
    THEN <<seg>>
    ELSE LET i == CHOOSE j \in 1..Len(seg) :
                      seg[j] = "," /\ \A k \in 1..(j - 1) : seg[k] # ","
         IN  <<SubSeq(seg, 1, i - 1)>> \o SplitComma(SubSeq(seg, i + 1, Len(seg)))
Entries(seg) == IF seg = <<>> THEN <<>> ELSE SplitComma(seg)
PortNumbers(seg) == [i \in 1..Len(Entries(seg)) |-> ParseInt(Entries(seg)[i])]

FirstN(xs, n) == SubSeq(xs, 1, IF n < Len(xs) THEN n ELSE Len(xs))

\* s reads "<tcp>,U:<udp>" with the first n entries of each catalog
IsTopExpr(s, n, tcp, udp) ==
    \E i \in 1..Len(s) :
        /\ i + 2 <= Len(s)
        /\ SubSeq(s, i, i + 2) = <<",", "U", ":">>
        /\ PortNumbers(SubSeq(s, 1, i - 1)) = FirstN(tcp, n)
        /\ PortNumbers(SubSeq(s, i + 3, Len(s))) = FirstN(udp, n)

\* a step in which program_args is called
CallsProgramArgs == calls' = calls + 1

\* the parameters the instance was created with make the resolver fail
InvalidParams ==
    \/ param_kwargs.ports # <<>> /\ param_kwargs.top_ports # 0
    \/ param_kwargs.ports = <<>> /\ param_kwargs.top_ports <= 0

\* ------------------------------------------------------------------ claims

\* C1 (as stated): every call of program_args with top_ports < 0 ends in
\* exit(3), whatever ports is.
C1_NegativeAlwaysExit3 ==
    [][(CallsProgramArgs /\ top_ports < 0) => exitStatus' = 3]_vars

\* C2: a call of program_args with ports non-empty and top_ports > 0 ends in
\* exit(1) whatever rate, interface and target_file are; no argument vector
\* is returned and no process is ever launched.
C2_ConflictExit1 ==
    /\ [][(CallsProgramArgs /\ ports # <<>> /\ top_ports > 0)
            => (exitStatus' = 1 /\ state' = "Failed" /\ command' = <<>>
                /\ launched' = launched)]_vars
    /\ [](exitStatus = 1 => (launched = 0 /\ command = <<>>))
C2_Witness ==
    /\ exitStatus = 1
    /\ calls = 1
    /\ param_kwargs.ports # <<>>
    /\ param_kwargs.top_ports > 0
    /\ state = "Failed"

\* C3: a call of program_args with ports empty and top_ports = 0 ends in
\* exit(2) and returns no argument vector.
C3_MissingExit2 ==
    [][(CallsProgramArgs /\ ports = <<>> /\ top_ports = 0)
         => (exitStatus' = 2 /\ state' = "Failed" /\ command' = <<>>
             /\ launched' = launched)]_vars
C3_Witness ==
    /\ exitStatus = 2
    /\ calls = 1
    /\ param_kwargs.ports = <<>>
    /\ param_kwargs.top_ports = 0
    /\ command = <<>>

\* C4: a call with ports empty and top_ports = n > 0 resolves ports to
\* "<tcp>,U:<udp>", the first min(n, length) entries of each catalog in
\* catalog order; n beyond a catalog clamps, and "U:" stays when the UDP
\* segment is empty.  The expression is the one put in the argument vector.
C4_TopPortsExpression ==
    [][(CallsProgramArgs /\ ports = <<>> /\ top_ports > 0)
         => (/\ exitStatus' = 0
             /\ IsTopExpr(ports', top_ports, top_tcp_ports, top_udp_ports)
             /\ command'[12] = ports')]_vars
\* top_ports beyond the TCP catalog, and an empty UDP segment
C4_Witness ==
    /\ calls >= 1
    /\ param_kwargs.ports = <<>>
    /\ param_kwargs.top_ports > Len(top_tcp_ports)
    /\ top_udp_ports = <<>>
    /\ ports = <<"8", "0", ",", "4", "4", "3", ",", "2", "2", ",", "U", ":">>
    /\ command # <<>>

\* C5: a call with ports non-empty and top_ports = 0 puts exactly the given
\* ports after the port flag and leaves ports and top_ports as they were.
C5_ExplicitPassThrough ==
    [][(CallsProgramArgs /\ ports # <<>> /\ top_ports = 0)
         => (/\ exitStatus' = 0
             /\ command'[11] = <<"-", "-", "p", "o", "r", "t", "s">>
             /\ command'[12] = ports
             /\ ports' = ports
             /\ top_ports' = top_ports)]_vars
C5_Witness ==
    /\ calls >= 1
    /\ param_kwargs.ports = <<"8", "0">>
    /\ param_kwargs.top_ports = 0
    /\ command # <<>>
    /\ command[12] = <<"8", "0">>

\* C6: once program_args has returned an argument vector, every later call
\* on the same instance returns the same vector and does not fail.
C6_RepeatedCallsAgree ==
    [][(CallsProgramArgs /\ calls >= 1)
         => (exitStatus' = 0 /\ command # <<>> /\ command' = command)]_vars
C6_Witness ==
    /\ calls >= 2
    /\ param_kwargs.top_ports > 0
    /\ exitStatus = 0
    /\ command # <<>>

\* C7: the output path is the one derived from target_file at construction
\* and no step changes it; when the output exists at invocation the task
\* goes to Succeeded with no call of program_args and no process launched,
\* on the first invocation and on every later one.
C7_OutputPathAndSkip ==
    /\ [](masscan_output = OutputPath(target_file))
    /\ [][masscan_output' = masscan_output]_vars
    /\ [][(state = "DependencyResolved" /\ outputExists)
            => (state' = "Succeeded" /\ calls' = calls
                /\ launched' = launched /\ command' = command
                /\ outputExists')]_vars
\* a second invocation finds the output written by the first
C7_Witness ==
    /\ state = "Succeeded"
    /\ outputExists
    /\ invocations >= 2
    /\ calls = 1
    /\ launched = 1

\* C8 (as stated): each violating combination exits with the status of its
\* kind (conflict 1, missing 2, negative count 3) before any launch.
C8_StatusPerViolationKind ==
    [][CallsProgramArgs
         => (/\ (ports # <<>> /\ top_ports > 0) => exitStatus' = 1
             /\ (ports = <<>> /\ top_ports = 0) => exitStatus' = 2
             /\ (top_ports < 0) => exitStatus' = 3
             /\ exitStatus' # 0 => (launched' = launched /\ state' = "Failed"))]_vars

\* C9 (as stated): no run whose parameters make the resolver fail reaches
\* Succeeded, also when the output file already exists.
C9_InvalidNeverSucceeds ==
    [](InvalidParams => state # "Succeeded")
\* C9 (amended): a run with such parameters whose output does not exist ends
\* in Failed without a launch; it reaches Succeeded only through the
\* output-exists skip, which does not call program_args.
C9_InvalidFailsUnlessSkipped ==
    /\ [][(state = "DependencyResolved" /\ ~outputExists /\ InvalidParams)
            => (state' = "Failed" /\ exitStatus' # 0
                /\ launched' = launched)]_vars
    /\ [](InvalidParams => launched = 0)
    /\ []((InvalidParams /\ state = "Succeeded")
            => (outputExists /\ calls = 0))
C9_Witness ==
    /\ InvalidParams
    /\ state = "Failed"
    /\ exitStatus # 0
    /\ ~outputExists

\* C10: after every call of program_args that returns, ports is non-empty
\* and top_ports is 0; a top_ports request has been replaced by its
\* resolved expression.
C10_OneSpecAfterResolution ==
    [][(CallsProgramArgs /\ exitStatus' = 0)
         => (/\ ports' # <<>>
             /\ top_ports' = 0
             /\ (top_ports > 0 => ports' # ports)
             /\ command'[12] = ports')]_vars
C10_Witness ==
    /\ command # <<>>
    /\ param_kwargs.top_ports > 0
    /\ param_kwargs.ports = <<>>
    /\ top_ports = 0
    /\ ports # <<>>
====
